---- MODULE Spec2Model ----
(***************************************************************************)
(* Model of the il65 assembly code generator (src/il65/generateasm.py):    *)
(* AssemblyGenerator.generate and the methods it drives.  The emitted text *)
(* is a sequence of line records; one record per physical output line.    *)
(***************************************************************************)
EXTENDS Integers, Sequences, FiniteSets, TLC

VARIABLES module,     \* self.module: the Program tree (read-only input)
          output,     \* the lines written to self.output so far
          sink,       \* state of the output file: "none", "open", "closed"
          pc,         \* position inside generate()
          exc,        \* the exception in flight (class "none" when there is none)
          raised,     \* what generate() signalled to its caller
          cur_block,  \* self.cur_block
          asm_format, \* Assembler64Tass: self.format
          filenames,  \* the input and output file names handed to the assembler
          asm_args,   \* the command line assemble() built
          listing,    \* the lines of the debug listing (<output>.final-asm)
          breakpoints, \* generate_breakpoint_list: the addresses recorded so far
          scanned,    \* generate_breakpoint_list: the listing lines read so far
          cmdfile     \* the lines of the label dump (<output>.vice-mon-list)

\* the state of the toolchain invoker
toolchain == <<asm_format, filenames, asm_args, listing, breakpoints, scanned, cmdfile>>

vars == <<module, output, sink, pc, exc, raised, cur_block,
          asm_format, filenames, asm_args, listing, breakpoints, scanned, cmdfile>>

(***************************************************************************)
(* Bounds of the explored inputs.                                          *)
(***************************************************************************)
MaxBlocks == 3
MaxVars == 3
MaxStmts == 3

(***************************************************************************)
(* Output lines.  k is the mnemonic or directive, s and t the symbols of   *)
(* the operand, n a numeric offset or count, a the digits of a formatted   *)
(* number.                                                                 *)
(***************************************************************************)
L(k, s, t, n, a) == [k |-> k, s |-> s, t |-> t, n |-> n, a |-> a]

Op(k) == L(k, "", "", 0, <<>>)

Comment(t) == L(";", "", t, 0, <<>>)

Blank == L("", "", "", 0, <<>>)

RECURSIVE HexDigits(_, _)
HexDigits(v, width) ==
    IF v < 16 /\ width <= 1 THEN <<v>>
    ELSE Append(HexDigits(v \div 16, width - 1), v % 16)

Hex02(v) == HexDigits(v, 2)

Hex04(v) == HexDigits(v, 4)

to_hex(v) == IF v < 256 THEN HexDigits(v, 2) ELSE HexDigits(v, 4)

RECURSIVE HexValue(_)
HexValue(digits) ==
    IF digits = <<>> THEN 0
    ELSE 16 * HexValue(SubSeq(digits, 1, Len(digits) - 1)) + digits[Len(digits)]

(***************************************************************************)
(* Exceptions.                                                             *)
(***************************************************************************)
NoExc == [class |-> "none", what |-> "", args |-> <<>>]

SystemExit(what) == [class |-> "SystemExit", what |-> what, args |-> <<>>]

CodeError(what, args) == [class |-> "CodeError", what |-> what, args |-> args]

\* What a method wrote before it returned or raised: the lines and the exception
Ok(lines) == [lines |-> lines, exc |-> NoExc]

Raise(x) == [lines |-> <<>>, exc |-> x]

\* first, and then, unless first raised, next
Chain(first, next) ==
    IF first.exc # NoExc THEN first
    ELSE [lines |-> first.lines \o next.lines, exc |-> next.exc]

(***************************************************************************)
(* Program tree nodes.                                                     *)
(***************************************************************************)
Node(type, name, vartype, datatype, value, size, ext, body) ==
    [type |-> type, name |-> name, vartype |-> vartype, datatype |-> datatype,
     value |-> value, size |-> size, zp_address |-> 0, ext |-> ext, body |-> body]

Label(name) == Node("Label", name, "", "", 0, <<>>, FALSE, <<>>)

Return == Node("Return", "", "", "", 0, <<>>, FALSE, <<>>)

InlineAssembly == Node("InlineAssembly", "", "", "", 0, <<>>, FALSE, <<>>)

Directive == Node("Directive", "", "", "", 0, <<>>, FALSE, <<>>)

OtherStmt == Node("Assignment", "", "", "", 0, <<>>, FALSE, <<>>)

VarDef(name, vartype, datatype, value, size) ==
    Node("VarDef", name, vartype, datatype, value, size, FALSE, <<>>)

Subroutine(name, ext, address, body) ==
    Node("Subroutine", name, "", "", address, <<>>, ext, body)

Block(name, address, nodes) == [name |-> name, address |-> address, nodes |-> nodes]

STRING_DATATYPES == {"STRING", "STRING_P", "STRING_S", "STRING_PS"}

filter_nodes(nodes, type) == SelectSeq(nodes, LAMBDA nd : nd.type = type)

zeropage(m) ==
    IF \E i \in 1..Len(m.blocks) : m.blocks[i].name = "ZP"
    THEN {m.blocks[CHOOSE i \in 1..Len(m.blocks) :
                     /\ m.blocks[i].name = "ZP"
                     /\ \A j \in 1..(i - 1) : m.blocks[j].name # "ZP"]}
    ELSE {}

main(m) ==
    m.blocks[CHOOSE i \in 1..Len(m.blocks) :
                 /\ m.blocks[i].name = "main"
                 /\ \A j \in 1..(i - 1) : m.blocks[j].name # "main"]

all_scopes(m) == m.blocks

block_label(b) == b.name

(***************************************************************************)
(* sanitycheck                                                             *)
(***************************************************************************)
start_found(m) ==
    \E i \in 1..Len(all_scopes(m)) :
        LET block == all_scopes(m)[i] IN
        \E j \in 1..Len(block.nodes) :
            /\ block.nodes[j].type = "Label"
            /\ block.nodes[j].name = "start"
            /\ block.name = "main"

all_blocknames(m) == [i \in 1..Len(m.blocks) |-> m.blocks[i].name]

unique_blocknames(m) == {m.blocks[i].name : i \in 1..Len(m.blocks)}

RECURSIVE KeepIndices(_, _, _)
KeepIndices(seq, keep, i) ==
    IF i > Len(seq) THEN <<>>
    ELSE (IF i \in keep THEN <<seq[i]>> ELSE <<>>) \o KeepIndices(seq, keep, i + 1)

remaining_blocknames_all(m) == all_blocknames(m)

\* all_blocknames after removing the first occurrence of every unique name
remaining_blocknames(m) ==
    LET names == all_blocknames(m) IN
    KeepIndices(names,
                {i \in 1..Len(names) : \E j \in 1..(i - 1) : names[j] = names[i]},
                1)

zp_has_code(m) ==
    \E zpblock \in zeropage(m) :
        \E i \in 1..Len(zpblock.nodes) :
            zpblock.nodes[i].type \notin {"Directive", "VarDef"}

sanitycheck(m) ==
    IF ~start_found(m) THEN SystemExit("MissingEntryPoint")
    ELSE IF Len(all_blocknames(m)) # Cardinality(unique_blocknames(m))
         THEN CodeError("DuplicateBlockName", remaining_blocknames(m))
    ELSE IF zp_has_code(m) THEN CodeError("InvalidZeroPageContent", <<>>)
    ELSE NoExc

(***************************************************************************)
(* header                                                                  *)
(***************************************************************************)
BASIC_LOAD_ADDRESS == 2049

header_preamble(m) ==
    << Comment("code generated by il65.py"),
       Comment("source file"),
       Comment("compiled on"),
       Comment("output options"),
       Comment("assembler syntax"),
       Blank, Op(".cpu"), Op(".enc"), Blank >>

Origin(address) == L("* =", "", "", 0, to_hex(address))

header_format(m) ==
    IF m.format = "BASIC"
    THEN IF m.address # BASIC_LOAD_ADDRESS
         THEN Raise(CodeError("InvalidLoadAddress", <<>>))
         ELSE Ok(<< Comment("basic program with sys call"),
                    Origin(m.address),
                    Op(".word"), Op(".null"), L("label", "+", "", 0, <<>>),
                    L("label", "_il65_entrypoint", "", 0, <<>>), Blank >>)
    ELSE IF m.format = "PRG"
    THEN Ok(<< Comment("program without sys call"), Origin(m.address), Blank >>)
    ELSE Ok(<< Comment("raw assembler program"), Origin(m.address), Blank >>)

\* returns the lines written and the exception raised (if any)
header(m) == Chain(Ok(header_preamble(m)), header_format(m))

(***************************************************************************)
(* init_vars_and_start                                                     *)
(***************************************************************************)
Jsr(s, t) == L("jsr", s, t, 0, <<>>)

Jmp(s, t) == L("jmp", s, t, 0, <<>>)

init_zp_call(m) ==
    IF zeropage(m) # {} THEN << Jsr("ZP", "_il65_init_block") >> ELSE <<>>

RECURSIVE init_block_calls_every(_, _)
init_block_calls_every(blocks, i) ==
    IF i > Len(blocks) THEN <<>>
    ELSE << Jsr(blocks[i].name, "_il65_init_block") >> \o init_block_calls_every(blocks, i + 1)

RECURSIVE init_block_calls(_, _)
init_block_calls(blocks, i) ==
    IF i > Len(blocks) THEN <<>>
    ELSE (IF blocks[i].name # "ZP"
          THEN << Jsr(blocks[i].name, "_il65_init_block") >>
          ELSE <<>>) \o init_block_calls(blocks, i + 1)

call_user_code_jmp(m) == << Jmp(block_label(main(m)), "start") >>

call_user_code(m) ==
    IF m.zp_options = "CLOBBER_RESTORE"
    THEN << Jsr(block_label(main(m)), "start"),
            Op("cld"),
            Jmp("", "_il65_restore_zeropage"), Blank,
            L("include", "restorezp.asm", "", 0, <<>>) >>
    ELSE << Jmp(block_label(main(m)), "start") >>

init_vars_and_start(m) ==
    (IF m.zp_options = "CLOBBER_RESTORE"
     THEN << Jsr("", "_il65_save_zeropage") >> ELSE <<>>)
    \o << Comment("initialize all blocks (reset vars)") >>
    \o init_zp_call(m)
    \o init_block_calls(m.blocks, 1)
    \o << Comment("call user code") >>
    \o call_user_code(m)
    \o << Blank >>

(***************************************************************************)
(* Stable ascending sort, as Python's sorted(seq, key=...): keys[i] is the *)
(* sort key of seq[i].                                                     *)
(***************************************************************************)
SortRank(keys, i) ==
    1 + Cardinality({j \in 1..Len(keys) :
                        keys[j] < keys[i] \/ (keys[j] = keys[i] /\ j < i)})

sorted(seq, keys) ==
    [r \in 1..Len(seq) |-> seq[CHOOSE i \in 1..Len(seq) : SortRank(keys, i) = r]]

\* alphabetical order of the variable names used in the explored programs
NameOrder == << "a", "b", "c", "d", "e", "f", "g", "h" >>

NameRank(name) == CHOOSE r \in 1..Len(NameOrder) : NameOrder[r] = name

(***************************************************************************)
(* to_mflpt5: the 5-byte float format (exponent, then 4 mantissa bytes     *)
(* with the sign in the top bit), for the non-negative whole values the    *)
(* explored programs use.                                                  *)
(***************************************************************************)
RECURSIVE BitLength(_)
BitLength(v) == IF v = 0 THEN 0 ELSE 1 + BitLength(v \div 2)

RECURSIVE Pow2(_)
Pow2(e) == IF e = 0 THEN 1 ELSE 2 * Pow2(e - 1)

to_mflpt5(v) ==
    IF v = 0 THEN << 0, 0, 0, 0, 0 >>
    ELSE LET e == BitLength(v)
             mant == (v - Pow2(e - 1)) * Pow2(32 - e)
         IN << 128 + e,
               (mant \div 16777216) % 256,
               (mant \div 65536) % 256,
               (mant \div 256) % 256,
               mant % 256 >>

(***************************************************************************)
(* generate_block_init                                                     *)
(***************************************************************************)
NoValue == -1

LdaImm(v) == L("lda #", "", "", 0, Hex02(v))

LdxImm(v) == L("ldx #", "", "", 0, Hex02(v))

Sta(name, off) == L("sta", name, "", off, <<>>)

Stx(name, off) == L("stx", name, "", off, <<>>)

\* the general variables (VarType.VAR) of one data type, in declaration order
vars_by_datatype(block, datatype) ==
    SelectSeq(filter_nodes(block.nodes, "VarDef"),
              LAMBDA vd : vd.vartype = "VAR" /\ vd.datatype = datatype)

values_of(vardefs) == [i \in 1..Len(vardefs) |-> vardefs[i].value]

RECURSIVE byte_pass_always_load(_, _, _)
byte_pass_always_load(bytevars, i, prev_value_a) ==
    IF i > Len(bytevars) THEN [lines |-> <<>>, a |-> prev_value_a]
    ELSE LET bytevar == bytevars[i]
             rest == byte_pass_always_load(bytevars, i + 1, bytevar.value)
         IN [lines |-> << LdaImm(bytevar.value), Sta(bytevar.name, 0) >> \o rest.lines,
             a |-> rest.a]

RECURSIVE byte_pass(_, _, _)
byte_pass(bytevars, i, prev_value_a) ==
    IF i > Len(bytevars) THEN [lines |-> <<>>, a |-> prev_value_a]
    ELSE LET bytevar == bytevars[i]
             rest == byte_pass(bytevars, i + 1, bytevar.value)
         IN [lines |-> (IF bytevar.value # prev_value_a
                        THEN << LdaImm(bytevar.value) >> ELSE <<>>)
                       \o << Sta(bytevar.name, 0) >> \o rest.lines,
             a |-> rest.a]

RECURSIVE word_pass_x_against_a(_, _, _, _)
word_pass_x_against_a(wordvars, i, prev_value_a, prev_value_x) ==
    IF i > Len(wordvars) THEN <<>>
    ELSE LET wordvar == wordvars[i]
             v_hi == wordvar.value \div 256
             v_lo == wordvar.value % 256
         IN (IF v_hi # prev_value_a THEN << LdaImm(v_hi) >> ELSE <<>>)
            \o (IF v_lo # v_hi THEN << LdxImm(v_lo) >> ELSE <<>>)
            \o << Sta(wordvar.name, 0), Stx(wordvar.name, 1) >>
            \o word_pass_x_against_a(wordvars, i + 1, v_hi, v_lo)

RECURSIVE word_pass(_, _, _, _)
word_pass(wordvars, i, prev_value_a, prev_value_x) ==
    IF i > Len(wordvars) THEN <<>>
    ELSE LET wordvar == wordvars[i]
             v_hi == wordvar.value \div 256
             v_lo == wordvar.value % 256
         IN (IF v_hi # prev_value_a THEN << LdaImm(v_hi) >> ELSE <<>>)
            \o (IF v_lo # prev_value_x THEN << LdxImm(v_lo) >> ELSE <<>>)
            \o << Sta(wordvar.name, 0), Stx(wordvar.name, 1) >>
            \o word_pass(wordvars, i + 1, v_hi, v_lo)

memset(varname, value, size) ==
    << L("lda #<", varname, "", 0, <<>>),
       Sta("il65_lib.SCRATCH_ZPWORD1", 0),
       L("lda #>", varname, "", 0, <<>>),
       Sta("il65_lib.SCRATCH_ZPWORD1", 1),
       L("lda #", "", "", 0, to_hex(value)),
       L("ldx #", "", "", 0, to_hex(size)),
       Jsr("il65_lib", "memset") >>

memsetw(varname, value, size) ==
    << L("lda #<", varname, "", 0, <<>>),
       Sta("il65_lib.SCRATCH_ZPWORD1", 0),
       L("lda #>", varname, "", 0, <<>>),
       Sta("il65_lib.SCRATCH_ZPWORD1", 1),
       L("lda #<", "", "", 0, to_hex(value)),
       L("ldy #>", "", "", 0, to_hex(value)),
       L("ldx #", "", "", 0, to_hex(size)),
       Jsr("il65_lib", "memsetw") >>

RECURSIVE array_inits(_, _)
array_inits(arrayvars, i) ==
    IF i > Len(arrayvars) THEN <<>>
    ELSE LET arrayvar == arrayvars[i] IN
         (IF arrayvar.datatype = "BYTEARRAY"
          THEN memset(arrayvar.name, arrayvar.value, arrayvar.size[1])
          ELSE IF arrayvar.datatype = "WORDARRAY"
          THEN memsetw(arrayvar.name, arrayvar.value, arrayvar.size[1])
          ELSE memset(arrayvar.name, arrayvar.value, arrayvar.size[1] * arrayvar.size[2]))
         \o array_inits(arrayvars, i + 1)

\* sorted(float_inits.items()): the float variables in order of name
float_inits(block) ==
    LET floatvars == vars_by_datatype(block, "FLOAT")
    IN sorted(floatvars, [i \in 1..Len(floatvars) |-> NameRank(floatvars[i].name)])

RECURSIVE float_copies(_, _)
float_copies(floats, i) ==
    IF i > Len(floats) THEN <<>>
    ELSE << L("lda ,x", "_init_float_", floats[i].name, 0, <<>>),
            L("sta ,x", floats[i].name, "", 0, <<>>) >>
         \o float_copies(floats, i + 1)

float_loop_from_five(floats) ==
    IF floats # <<>>
    THEN << L("ldx #", "", "", 0, <<5>>), L("label", "-", "", 0, <<>>) >>
         \o float_copies(floats, 1)
         \o << Op("dex"), L("bpl", "-", "", 0, <<>>) >>
    ELSE <<>>

float_loop(floats) ==
    IF floats # <<>>
    THEN << L("ldx #", "", "", 0, <<4>>), L("label", "-", "", 0, <<>>) >>
         \o float_copies(floats, 1)
         \o << Op("dex"), L("bpl", "-", "", 0, <<>>) >>
    ELSE <<>>

RECURSIVE float_tables(_, _)
float_tables(floats, i) ==
    IF i > Len(floats) THEN <<>>
    ELSE LET fpbytes == to_mflpt5(floats[i].value) IN
         << L(".byte", "_init_float_", floats[i].name, 0,
              Hex02(fpbytes[1]) \o Hex02(fpbytes[2]) \o Hex02(fpbytes[3])
              \o Hex02(fpbytes[4]) \o Hex02(fpbytes[5])) >>
         \o float_tables(floats, i + 1)

sorted_by_value(vardefs) == sorted(vardefs, values_of(vardefs))

\* the word pass, entered with the registers as the byte pass left them
word_pass_after(bytes, wordvars) ==
    bytes.lines \o word_pass(sorted_by_value(wordvars), 1, bytes.a, NoValue)

float_init(floats) ==
    float_loop(floats) \o << Op("rts"), Blank >> \o float_tables(floats, 1)

generate_block_init(block) ==
    << L("label", "_il65_init_block", "", 0, <<>>) >>
    \o word_pass_after(byte_pass(sorted_by_value(vars_by_datatype(block, "BYTE")), 1, NoValue),
                       vars_by_datatype(block, "WORD"))
    \o array_inits(vars_by_datatype(block, "BYTEARRAY"), 1)
    \o array_inits(vars_by_datatype(block, "WORDARRAY"), 1)
    \o array_inits(vars_by_datatype(block, "MATRIX"), 1)
    \o float_init(float_inits(block))
    \o << Blank >>

(***************************************************************************)
(* generate_block_vars                                                     *)
(***************************************************************************)
Equ(name, digits) == L("=", name, "", 0, digits)

generate_string_var(vardef) ==
    IF vardef.datatype = "STRING"
    THEN << L("label", vardef.name, "", 0, <<>>), L(".null", "", "", 0, <<>>) >>
    ELSE IF vardef.datatype = "STRING_P"
    THEN << L("label", vardef.name, "", 0, <<>>), L(".ptext", "", "", 0, <<>>) >>
    ELSE IF vardef.datatype = "STRING_S"
    THEN << Op(".enc"), L("label", vardef.name, "", 0, <<>>),
            L(".null", "", "", 0, <<>>), Op(".enc") >>
    ELSE << Op(".enc"), L("label", vardef.name, ".ptext", 0, <<>>), Op(".enc") >>

\* what one variable definition contributes to its section, or the error it raises
const_line(vardef) ==
    IF vardef.datatype \in {"FLOAT"}
    THEN Ok(<< L("=", vardef.name, "float", vardef.value, <<>>) >>)
    ELSE IF vardef.datatype \in {"BYTE", "WORD"}
    THEN Ok(<< Equ(vardef.name, to_hex(vardef.value)) >>)
    ELSE IF vardef.datatype \in STRING_DATATYPES
    THEN Ok(generate_string_var(vardef))
    ELSE Raise(CodeError("InvalidConstantType", <<>>))

memory_line(vardef) ==
    IF vardef.datatype \in {"BYTE", "WORD", "FLOAT", "BYTEARRAY", "WORDARRAY", "MATRIX"}
    THEN Ok(<< Equ(vardef.name, to_hex(vardef.value)) >>)
    ELSE Raise(CodeError("InvalidMemoryMappedType", <<>>))

zp_line(vardef) == Ok(<< Equ(vardef.name, to_hex(vardef.zp_address)) >>)

var_line(vardef) ==
    IF vardef.datatype = "BYTE"
    THEN Ok(<< L(".byte", vardef.name, "?", 0, <<>>) >>)
    ELSE IF vardef.datatype = "WORD"
    THEN Ok(<< L(".word", vardef.name, "?", 0, <<>>) >>)
    ELSE IF vardef.datatype = "FLOAT"
    THEN Ok(<< L(".fill", vardef.name, "", 5, <<>>) >>)
    ELSE IF vardef.datatype = "BYTEARRAY"
    THEN Ok(<< L(".fill", vardef.name, "", vardef.size[1], <<>>) >>)
    ELSE IF vardef.datatype = "WORDARRAY"
    THEN Ok(<< L(".fill", vardef.name, "", vardef.size[1] * 2, <<>>) >>)
    ELSE IF vardef.datatype = "MATRIX"
    THEN Ok(<< L(".fill", vardef.name, "", vardef.size[1] * vardef.size[2], <<>>) >>)
    ELSE IF vardef.datatype \in STRING_DATATYPES
    THEN Ok(<<>>)
    ELSE Raise(CodeError("UnknownVariableKind", <<>>))

section_line(section, vardef) ==
    IF section = "CONST" THEN const_line(vardef)
    ELSE IF section = "MEMORY" THEN memory_line(vardef)
    ELSE IF section = "ZP" THEN zp_line(vardef)
    ELSE var_line(vardef)

\* the lines of one section, up to and excluding the first definition that raises
RECURSIVE section_lines(_, _, _)
section_lines(section, vardefs, i) ==
    IF i > Len(vardefs) THEN Ok(<<>>)
    ELSE Chain(section_line(section, vardefs[i]), section_lines(section, vardefs, i + 1))

vars_by_vartype(block, vartype) ==
    SelectSeq(filter_nodes(block.nodes, "VarDef"), LAMBDA vd : vd.vartype = vartype)

RECURSIVE string_fills(_, _)
string_fills(svars, i) ==
    IF i > Len(svars) THEN <<>>
    ELSE << L(".fill", svars[i].name, "+1", svars[i].value, <<>>) >>
         \o string_fills(svars, i + 1)

sorted_by_name(vardefs) ==
    sorted(vardefs, [i \in 1..Len(vardefs) |-> NameRank(vardefs[i].name)])

string_section(svars) ==
    IF svars = <<>> THEN <<>>
    ELSE << L("label", "il65_string_vars_start", "", 0, <<>>) >>
         \o string_fills(sorted_by_name(svars), 1)

string_vars(block) ==
    string_section(SelectSeq(vars_by_vartype(block, "VAR"),
                             LAMBDA vd : vd.datatype \in STRING_DATATYPES))

generate_block_vars(block, zp) ==
    Chain(Ok(<< Comment("constants") >>),
    Chain(section_lines("CONST", vars_by_vartype(block, "CONST"), 1),
    Chain(Ok(<< Comment("memory mapped variables") >>),
    Chain(section_lines("MEMORY", vars_by_vartype(block, "MEMORY"), 1),
    Chain(Ok(<< Comment("normal variables") >>),
    Chain(section_lines(IF zp THEN "ZP" ELSE "VAR", vars_by_vartype(block, "VAR"), 1),
          Ok((IF zp THEN <<>> ELSE string_vars(block)) \o << Blank >>)))))))

(***************************************************************************)
(* generate_statement                                                      *)
(***************************************************************************)
generate_statement(stmt) ==
    IF stmt.type = "Label"
    THEN << Blank, L("label", stmt.name, "", 0, <<>>) >>
    ELSE IF stmt.type = "Return"
    THEN << Op("rts") >>
    ELSE IF stmt.type = "InlineAssembly"
    THEN << Blank, Comment("inline asm"), Op("asm"), Comment("end inline asm"), Blank >>
    ELSE << L("rts", "", "; stmt", 0, <<>>) >>

(***************************************************************************)
(* blocks                                                                  *)
(***************************************************************************)
zp_block_head(zpblock) ==
    << Blank, L("; block", zpblock.name, "zero page block", 0, <<>>),
       Comment("file"), Blank,
       L(".proc", block_label(zpblock), "", 0, <<>>), Blank >>

zp_block_text_storage(zpblock) ==
    Chain(Ok(zp_block_head(zpblock) \o generate_block_init(zpblock)),
    Chain(generate_block_vars(zpblock, FALSE),
          Ok(<< L(".pend", "", "", 0, <<>>), Blank >>)))

zp_block_text(zpblock) ==
    Chain(Ok(zp_block_head(zpblock) \o generate_block_init(zpblock)),
    Chain(generate_block_vars(zpblock, TRUE),
          Ok(<< L(".pend", "", "", 0, <<>>), Blank >>)))

RECURSIVE external_subroutines(_, _)
external_subroutines(subs, i) ==
    IF i > Len(subs) THEN <<>>
    ELSE << Equ(subs[i].name, to_hex(subs[i].value)) >> \o external_subroutines(subs, i + 1)

RECURSIVE statements_any_block(_, _, _, _)
statements_any_block(nodes, i, skipped, flags) ==
    IF i > Len(nodes) THEN <<>>
    ELSE LET stmt == nodes[i] IN
         (IF stmt.type \in skipped THEN <<>>
          ELSE generate_statement(stmt)
               \o (IF stmt.type = "Label" /\ stmt.name = "start"
                   THEN << Op("cld"), Op("clc"), Op("clv") >> ELSE <<>>))
         \o statements_any_block(nodes, i + 1, skipped, flags)

\* the statement pass over a scope: skipped holds the node types left out
RECURSIVE statements(_, _, _, _)
statements(nodes, i, skipped, flags) ==
    IF i > Len(nodes) THEN <<>>
    ELSE LET stmt == nodes[i] IN
         (IF stmt.type \in skipped THEN <<>>
          ELSE generate_statement(stmt)
               \o (IF flags /\ stmt.type = "Label" /\ stmt.name = "start"
                   THEN << Op("cld"), Op("clc"), Op("clv") >> ELSE <<>>))
         \o statements(nodes, i + 1, skipped, flags)

RECURSIVE block_subroutines(_, _)
block_subroutines(subs, i) ==
    IF i > Len(subs) THEN <<>>
    ELSE << L("label", subs[i].name, "", 0, <<>>),
            Comment("params"), Comment("returns clobbers") >>
         \o statements(subs[i].body, 1, {"VarDef", "Directive"}, FALSE)
         \o << Blank >>
         \o block_subroutines(subs, i + 1)

block_head(block) ==
    << Blank, L("; block", block.name, "block", 0, <<>>), Comment("file"), Blank >>
    \o (IF block.address # 0
        THEN << L(".cerror", "", "", 0, Hex04(block.address)),
                L("* =", "", "", 0, Hex04(block.address)) >>
        ELSE <<>>)
    \o << L(".proc", block_label(block), "", 0, <<>>), Blank >>

external_section(subs) ==
    IF subs # <<>>
    THEN << Comment("external subroutines") >>
         \o external_subroutines(subs, 1)
         \o << Comment("end external subroutines"), Blank >>
    ELSE <<>>

scoped_section(subs) ==
    IF subs # <<>>
    THEN << Comment("-- block subroutines") >>
         \o block_subroutines(subs, 1)
         \o << Comment("-- end block subroutines") >>
    ELSE <<>>

block_code(block) ==
    external_section(SelectSeq(filter_nodes(block.nodes, "Subroutine"), LAMBDA sub : sub.ext))
    \o statements(block.nodes, 1, {"VarDef", "Directive", "Subroutine"}, block.name = "main")
    \o scoped_section(SelectSeq(filter_nodes(block.nodes, "Subroutine"), LAMBDA sub : ~sub.ext))
    \o << Blank, L(".pend", "", "", 0, <<>>), Blank >>

block_text(block) ==
    Chain(Ok(block_head(block) \o generate_block_init(block)),
    Chain(generate_block_vars(block, FALSE),
          Ok(block_code(block))))

blocks_unsorted(m) == m.blocks

\* the Blocks in the order of the main loop of blocks()
blocks_sorted(m) ==
    sorted(m.blocks, [i \in 1..Len(m.blocks) |-> m.blocks[i].address])

\* the text of a Block together with self.cur_block
InBlock(text, name) == [lines |-> text.lines, exc |-> text.exc, cur_block |-> name]

ChainBlocks(first, next) ==
    IF first.exc # NoExc THEN first
    ELSE [lines |-> first.lines \o next.lines, exc |-> next.exc, cur_block |-> next.cur_block]

\* the loop over the sorted Blocks, from position i, up to the first error
RECURSIVE blocks_loop(_, _, _)
blocks_loop(order, i, cur) ==
    IF i > Len(order) THEN InBlock(Ok(<<>>), cur)
    ELSE IF order[i].name = "ZP" THEN blocks_loop(order, i + 1, cur)
    ELSE ChainBlocks(InBlock(block_text(order[i]), order[i].name),
                     blocks_loop(order, i + 1, order[i].name))

blocks_from_zp(zpblock, m) ==
    ChainBlocks(InBlock(zp_block_text(zpblock), zpblock.name),
                blocks_loop(blocks_sorted(m), 1, zpblock.name))

blocks(m, cur) ==
    IF zeropage(m) # {}
    THEN blocks_from_zp(CHOOSE zpblock \in zeropage(m) : TRUE, m)
    ELSE blocks_loop(blocks_sorted(m), 1, cur)

footer == << Op(".end") >>

(***************************************************************************)
(* generate: the driver                                                    *)
(***************************************************************************)
ErrorMarker(x) == L(".error", "ABORTED DUE TO ERROR", x.what, 0, <<>>)

Open ==
    /\ pc = "generate"
    /\ sink' = "open"
    /\ output' = <<>>
    /\ pc' = "sanitycheck"
    /\ UNCHANGED <<module, exc, raised, cur_block, toolchain>>

\* a method returned or raised x
Returned(x, next) ==
    /\ exc' = x
    /\ pc' = IF x = NoExc THEN next ELSE "except"

Sanitycheck ==
    /\ pc = "sanitycheck"
    /\ Returned(sanitycheck(module), "header")
    /\ UNCHANGED <<module, output, sink, raised, cur_block, toolchain>>

\* a method wrote r.lines and then returned or raised r.exc
Wrote(r, next) ==
    /\ output' = output \o r.lines
    /\ Returned(r.exc, next)

Header ==
    /\ pc = "header"
    /\ Wrote(header(module), "init_vars_and_start")
    /\ UNCHANGED <<module, sink, raised, cur_block, toolchain>>

InitVarsAndStart ==
    /\ pc = "init_vars_and_start"
    /\ output' = output \o init_vars_and_start(module)
    /\ pc' = "blocks"
    /\ UNCHANGED <<module, sink, exc, raised, cur_block, toolchain>>

WroteBlocks(r) ==
    /\ Wrote(r, "footer")
    /\ cur_block' = r.cur_block

Blocks ==
    /\ pc = "blocks"
    /\ WroteBlocks(blocks(module, cur_block))
    /\ UNCHANGED <<module, sink, raised, toolchain>>

Footer ==
    /\ pc = "footer"
    /\ output' = output \o footer
    /\ pc' = "release"
    /\ UNCHANGED <<module, sink, exc, raised, cur_block, toolchain>>

Except_BaseException ==
    /\ pc = "except"
    /\ output' = Append(output, ErrorMarker(exc))
    /\ pc' = "release"
    /\ UNCHANGED <<module, sink, exc, raised, cur_block, toolchain>>

Except_NoMarker ==
    /\ pc = "except"
    /\ pc' = "release"
    /\ UNCHANGED <<module, output, sink, exc, raised, cur_block, toolchain>>

\* the except clause of generate: it handles Exception, which CodeError is
\* and SystemExit is not
Except ==
    /\ pc = "except"
    /\ output' = IF exc.class = "CodeError" THEN Append(output, ErrorMarker(exc)) ELSE output
    /\ pc' = "release"
    /\ UNCHANGED <<module, sink, exc, raised, cur_block, toolchain>>

\* leaving the with statement closes the file; the exception goes to the caller
Release ==
    /\ pc = "release"
    /\ sink' = "closed"
    /\ raised' = exc
    /\ pc' = "done"
    /\ UNCHANGED <<module, output, exc, cur_block, toolchain>>

Next ==
    \/ Open
    \/ Sanitycheck
    \/ Header
    \/ InitVarsAndStart
    \/ Blocks
    \/ Footer
    \/ Except
    \/ Release

(***************************************************************************)
(* The Programs explored.  Every Program is a tree the parser can hand to  *)
(* the generator; an address of 0 stands for "no fixed address" (the code  *)
(* reads the address only through `address or 0` and `if address`).        *)
(***************************************************************************)
Program(format, address, zp_options, blks) ==
    [format |-> format, address |-> address, zp_options |-> zp_options, blocks |-> blks]

Formats == {"RAW", "PRG", "BASIC"}

ZpOptions == {"NONE", "CLOBBER_RESTORE"}

Addresses == {0, 4096, 8192}

LoadAddresses == {2049, 49152}

MainBody == << Label("start"), Return >>

SeqsUpTo(S, lo, hi) == UNION {[1..n -> S] : n \in lo..hi}

\* Programs that differ in the number, names, order and addresses of their Blocks
LayoutBlocks ==
    {Block(name, address, <<>>) : name \in {"ZP", "lib"}, address \in Addresses}
    \cup {Block("main", address, MainBody) : address \in Addresses}

LayoutPrograms ==
    {Program("RAW", 49152, "NONE", blks) : blks \in SeqsUpTo(LayoutBlocks, 1, MaxBlocks)}

\* Programs that differ in the general variables of one Block
VarMenu ==
    { VarDef("", "VAR", "BYTE", 65, <<1>>),
      VarDef("", "VAR", "BYTE", 2, <<1>>),
      VarDef("", "VAR", "WORD", 512, <<1>>),
      VarDef("", "VAR", "WORD", 514, <<1>>),
      VarDef("", "VAR", "WORD", 65535, <<1>>),
      VarDef("", "VAR", "FLOAT", 3, <<1>>),
      VarDef("", "VAR", "BYTEARRAY", 0, <<4>>) }

\* variables of the other storage classes and data kinds (a string's value
\* is kept as its length)
OtherVarMenu ==
    { VarDef("", "VAR", "WORDARRAY", 258, <<2>>),
      VarDef("", "VAR", "MATRIX", 1, <<2, 3>>),
      VarDef("", "VAR", "STRING", 5, <<1>>),
      VarDef("", "VAR", "FLOAT", 10, <<1>>),
      VarDef("", "CONST", "BYTE", 7, <<1>>),
      VarDef("", "CONST", "FLOAT", 3, <<1>>),
      VarDef("", "CONST", "STRING", 5, <<1>>),
      VarDef("", "CONST", "MATRIX", 0, <<2, 2>>),
      VarDef("", "MEMORY", "WORD", 53280, <<1>>),
      VarDef("", "MEMORY", "STRING", 1024, <<1>>) }

VarNames == << "c", "a", "d", "b", "h", "e", "g", "f" >>

named(vardefs) ==
    [i \in 1..Len(vardefs) |->
        [vardefs[i] EXCEPT !.name = VarNames[i], !.zp_address = 2 * i]]

VarSeqs ==
    SeqsUpTo(VarMenu, 0, MaxVars)
    \cup {<< other >> : other \in OtherVarMenu}
    \cup {<< other, general >> : other \in OtherVarMenu, general \in VarMenu}
    \cup {<< general, other >> : other \in OtherVarMenu, general \in VarMenu}

VarPrograms ==
    {Program("RAW", 49152, "NONE", << Block("main", 0, named(vs) \o MainBody) >>) :
        vs \in VarSeqs}
    \cup
    {Program("RAW", 49152, "NONE",
             << Block("ZP", 0, named(vs)), Block("main", 0, MainBody) >>) :
        vs \in VarSeqs}

\* Programs that differ in output format, load address and zero-page content
ZpBodies == { <<>>, << Directive >>, << Return >>, << Label("start") >>,
              << Subroutine("ext", TRUE, 65490, <<>>) >> }

FormatPrograms ==
    {Program(format, address, zp, << Block("main", 0, MainBody) >>) :
        format \in Formats, address \in LoadAddresses, zp \in ZpOptions}
    \cup
    {Program(format, address, zp, << Block("ZP", 0, body), Block("main", 0, MainBody) >>) :
        format \in Formats, address \in LoadAddresses, zp \in ZpOptions, body \in ZpBodies}

\* Programs that differ in the statements of one Block
StmtMenu ==
    { Label("start"), Label("loop"), Return, InlineAssembly, OtherStmt, Directive,
      Subroutine("ext", TRUE, 65490, <<>>),
      Subroutine("sub", FALSE, 0, << Label("start"), Return >>) }

StmtPrograms ==
    {Program("RAW", 49152, "NONE", << Block("main", 0, body) >>) :
        body \in SeqsUpTo(StmtMenu, 0, MaxStmts)}
    \cup
    {Program("RAW", 49152, "NONE",
             << Block("lib", 4096, body), Block("main", 0, MainBody) >>) :
        body \in SeqsUpTo(StmtMenu, 0, MaxStmts)}

Programs == LayoutPrograms \cup VarPrograms \cup FormatPrograms \cup StmtPrograms

Init ==
    /\ module \in Programs
    /\ output = <<>>
    /\ sink = "none"
    /\ pc = "generate"
    /\ exc = NoExc
    /\ raised = NoExc
    /\ cur_block = ""
    /\ asm_format = module.format
    /\ filenames = [input |-> "", output |-> ""]
    /\ asm_args = <<>>
    /\ listing = <<>>
    /\ breakpoints = <<>>
    /\ scanned = 0
    /\ cmdfile = <<>>

Spec == Init /\ [][Next]_vars

(***************************************************************************)
(* Reading the emitted text.                                               *)
(***************************************************************************)
Indices(k) == {i \in 1..Len(output) : output[i].k = k}

Range(seq) == {seq[i] : i \in 1..Len(seq)}

Count(seq, x) == Cardinality({i \in 1..Len(seq) : seq[i] = x})

Min(S) == CHOOSE x \in S : \A y \in S : x <= y

Max(S) == CHOOSE x \in S : \A y \in S : x >= y

Instructions ==
    {"lda #", "ldx #", "lda #<", "lda #>", "ldy #>", "lda ,x", "sta ,x", "sta", "stx",
     "jsr", "jmp", "rts", "dex", "bpl", "cld", "clc", "clv", "asm"}

\* the startup sequence has been written
StartupEmitted == \E i \in Indices(";") : output[i].t = "call user code"

\* the block names of the initializer calls of the startup sequence, in text order
InitCallLines ==
    SelectSeq(output, LAMBDA line : line.k = "jsr" /\ line.t = "_il65_init_block")

InitCallNames == [i \in 1..Len(InitCallLines) |-> InitCallLines[i].s]

\* the line that transfers control to main.start
EntryIndices == {i \in 1..Len(output) : output[i].k \in {"jsr", "jmp"} /\ output[i].t = "start"}

\* the names of the Blocks whose text has been started, in text order
EmittedBlocks ==
    LET heads == SelectSeq(output, LAMBDA line : line.k = "; block")
    IN [i \in 1..Len(heads) |-> heads[i].s]

BlockIndex(name) == CHOOSE i \in 1..Len(module.blocks) : module.blocks[i].name = name

Succeeded == pc \in {"footer", "release", "done"} /\ exc = NoExc

Finished == pc = "done" /\ raised = NoExc

(***************************************************************************)
(* C1: for every Program that passes the sanity check, the startup         *)
(* sequence holds exactly one initializer call per Block; the call of the  *)
(* zero-page Block, when there is one, comes before every other, the calls *)
(* of the other Blocks follow the Program's Block order, and all of them   *)
(* come before the jump or call to main.start.                             *)
(***************************************************************************)
C1_StartupInitCalls ==
    StartupEmitted =>
        /\ Len(InitCallNames) = Len(module.blocks)
        /\ \A b \in 1..Len(module.blocks) :
               Count(InitCallNames, module.blocks[b].name) = 1
        /\ (zeropage(module) # {} => InitCallNames[1] = "ZP")
        /\ SelectSeq(InitCallNames, LAMBDA name : name # "ZP")
               = SelectSeq(all_blocknames(module), LAMBDA name : name # "ZP")
        /\ Cardinality(EntryIndices) = 1
        /\ \A i \in 1..Len(output) :
               (output[i].k = "jsr" /\ output[i].t = "_il65_init_block")
                   => \A e \in EntryIndices : i < e

C1_Witness ==
    /\ Finished
    /\ Len(module.blocks) = 3
    /\ module.blocks[3].name = "ZP"
    /\ Len(InitCallNames) = 3

(***************************************************************************)
(* C2: blocks() emits every Block exactly once: the zero-page Block first  *)
(* whatever its address, then the other Blocks in ascending order of fixed *)
(* address, a Block without one sorting as address zero, Blocks with equal *)
(* keys staying in their Program order.                                    *)
(***************************************************************************)
C2_BlockOrder ==
    LET em == EmittedBlocks IN
    /\ \A i, j \in 1..Len(em) :
           i < j =>
               /\ em[i] # em[j]
               /\ em[j] # "ZP"
               /\ \/ em[i] = "ZP"
                  \/ module.blocks[BlockIndex(em[i])].address
                         < module.blocks[BlockIndex(em[j])].address
                  \/ /\ module.blocks[BlockIndex(em[i])].address
                            = module.blocks[BlockIndex(em[j])].address
                     /\ BlockIndex(em[i]) < BlockIndex(em[j])
    /\ Succeeded =>
           /\ Len(em) = Len(module.blocks)
           /\ Range(em) = unique_blocknames(module)

C2_Witness ==
    /\ Finished
    /\ Len(module.blocks) = 3
    /\ module.blocks[2].name = "ZP"
    /\ module.blocks[2].address > module.blocks[1].address
    /\ module.blocks[1].address > module.blocks[3].address
    /\ EmittedBlocks = << "ZP", module.blocks[3].name, module.blocks[1].name >>

(***************************************************************************)
(* C3: for a Program in which no Block named main holds a Label named      *)
(* start, generate() fails with MissingEntryPoint and nothing is written:  *)
(* no header, startup sequence, block, footer or other text.               *)
(***************************************************************************)
C3_MissingEntryPoint ==
    ~start_found(module) =>
        /\ output = <<>>
        /\ pc \in {"generate", "sanitycheck", "except", "release", "done"}
        /\ pc \in {"except", "release", "done"} => exc = SystemExit("MissingEntryPoint")
        /\ pc = "done" => raised = SystemExit("MissingEntryPoint")

C3_Witness ==
    /\ pc = "done"
    /\ raised = SystemExit("MissingEntryPoint")
    /\ sink = "closed"
    /\ \E i \in 1..Len(module.blocks) : module.blocks[i].name = "main"

(***************************************************************************)
(* C4: for a Program with an entry point in which some Block name occurs   *)
(* more than once, sanitycheck fails with DuplicateBlockName before any    *)
(* output is produced, and the names carried by the error are exactly the  *)
(* names that occur more than once (also those occurring three times).     *)
(***************************************************************************)
HasDuplicateNames(m) == \E i, j \in 1..Len(m.blocks) : i # j /\ m.blocks[i].name = m.blocks[j].name

C4_DuplicateBlockName ==
    (start_found(module) /\ HasDuplicateNames(module) /\ pc \notin {"generate", "sanitycheck"}) =>
        /\ exc.class = "CodeError"
        /\ exc.what = "DuplicateBlockName"
        /\ \A name \in unique_blocknames(module) :
               name \in Range(exc.args) <=> Count(all_blocknames(module), name) > 1
        /\ pc = "except" => output = <<>>
        /\ \A i \in 1..Len(output) : output[i].k = ".error"

C4_Witness ==
    /\ pc = "done"
    /\ raised.what = "DuplicateBlockName"
    /\ Len(module.blocks) = 3
    /\ Cardinality(unique_blocknames(module)) = 2
    /\ module.blocks[2].name = module.blocks[3].name

(***************************************************************************)
(* C5 as stated: on every exit path the sink is released, and for every    *)
(* generation-time error an error marker is written into the output        *)
(* before the sink is released and the same error is re-signalled.         *)
(***************************************************************************)
C5_MarkerForEveryError ==
    /\ pc = "done" => sink = "closed" /\ raised = exc
    /\ (pc \in {"release", "done"} /\ exc # NoExc) =>
           /\ output # <<>>
           /\ output[Len(output)] = ErrorMarker(exc)

(***************************************************************************)
(* C5 amended: on every exit path the sink is released and the error in    *)
(* flight is re-signalled unchanged; for every error raised as CodeError   *)
(* the error marker is the last line written before the sink is released;  *)
(* MissingEntryPoint is raised as SystemExit, passes the handler without a *)
(* marker and leaves the output empty.                                     *)
(***************************************************************************)
Taxonomy ==
    {"DuplicateBlockName", "InvalidZeroPageContent", "InvalidLoadAddress",
     "InvalidMemoryMappedType", "InvalidConstantType", "UnknownVariableKind"}

C5_MarkerForCodeErrors ==
    /\ pc = "done" => sink = "closed" /\ raised = exc
    /\ pc = "release" => sink = "open"
    /\ (pc \in {"release", "done"} /\ exc.class = "CodeError") =>
           /\ exc.what \in Taxonomy
           /\ output # <<>>
           /\ output[Len(output)] = ErrorMarker(exc)
           /\ Cardinality(Indices(".error")) = 1
    /\ (pc \in {"release", "done"} /\ exc.class # "CodeError") =>
           /\ Indices(".error") = {}
           /\ exc.class = "SystemExit" => exc.what = "MissingEntryPoint" /\ output = <<>>

C5_Witness ==
    /\ pc = "done"
    /\ sink = "closed"
    /\ raised = CodeError("InvalidMemoryMappedType", <<>>)
    /\ Len(output) > 1

(***************************************************************************)
(* Reading the text of one Block.                                          *)
(***************************************************************************)
ProcIndex(name) == CHOOSE p \in Indices(".proc") : output[p].s = name

\* the initializer of the Block: from the _il65_init_block label to its rts
InitText(name) ==
    LET p == ProcIndex(name)
        first == Min({i \in Indices("label") : i > p /\ output[i].s = "_il65_init_block"})
        last == Min({i \in Indices("rts") : i > first})
    IN SubSeq(output, first, last)

SourceBlock(name) == module.blocks[BlockIndex(name)]

IsGeneralVar(block, name, datatypes) ==
    \E i \in 1..Len(block.nodes) :
        /\ block.nodes[i].type = "VarDef"
        /\ block.nodes[i].vartype = "VAR"
        /\ block.nodes[i].datatype \in datatypes
        /\ block.nodes[i].name = name

VarValue(block, name) ==
    block.nodes[CHOOSE i \in 1..Len(block.nodes) :
                    block.nodes[i].type = "VarDef" /\ block.nodes[i].name = name].value

GeneralVars(block, datatype) ==
    {i \in 1..Len(block.nodes) :
        /\ block.nodes[i].type = "VarDef"
        /\ block.nodes[i].vartype = "VAR"
        /\ block.nodes[i].datatype = datatype}

\* the stores of the initializer to the general variables of one data type
StoresTo(name, mnemonic, datatype) ==
    SelectSeq(InitText(name),
              LAMBDA line : line.k = mnemonic /\ IsGeneralVar(SourceBlock(name), line.s, {datatype}))

\* the lines of the byte and word passes: up to the last store to a byte or word variable
PassText(name) ==
    LET text == InitText(name) IN
    SubSeq(text, 1,
           Max({0} \cup {i \in 1..Len(text) :
                            /\ text[i].k \in {"sta", "stx"}
                            /\ IsGeneralVar(SourceBlock(name), text[i].s, {"BYTE", "WORD"})}))

Ascending(block, stores) ==
    \A i \in 1..(Len(stores) - 1) :
        VarValue(block, stores[i].s) <= VarValue(block, stores[i + 1].s)

NoRepeatedLoad(text, mnemonic) ==
    LET loads == SelectSeq(text, LAMBDA line : line.k = mnemonic) IN
    \A i \in 1..(Len(loads) - 1) : loads[i].a # loads[i + 1].a

(***************************************************************************)
(* C6: in the initializer of any Block the stores to byte variables are in *)
(* ascending order of value, so are the stores to word variables, and in   *)
(* the byte and word passes no load-immediate of A (or of X) has the same  *)
(* operand as the preceding load-immediate of that register.               *)
(***************************************************************************)
C6_SortedNoRepeatedLoads ==
    \A p \in Indices(".proc") :
        LET name == output[p].s
            block == SourceBlock(name)
            byteStores == StoresTo(name, "sta", "BYTE")
            wordStores == StoresTo(name, "sta", "WORD")
        IN /\ Len(byteStores) = Cardinality(GeneralVars(block, "BYTE"))
           /\ Len(wordStores) = Cardinality(GeneralVars(block, "WORD"))
           /\ Ascending(block, byteStores)
           /\ Ascending(block, wordStores)
           /\ NoRepeatedLoad(PassText(name), "lda #")
           /\ NoRepeatedLoad(PassText(name), "ldx #")

C6_Witness ==
    /\ Finished
    /\ LET nodes == main(module).nodes IN
       /\ Len(nodes) = 5
       /\ nodes[1].datatype = "WORD" /\ nodes[1].vartype = "VAR" /\ nodes[1].value = 514
       /\ nodes[2].datatype = "BYTE" /\ nodes[2].vartype = "VAR" /\ nodes[2].value = 2
       /\ nodes[3].datatype = "WORD" /\ nodes[3].vartype = "VAR" /\ nodes[3].value = 512
    /\ Len(SelectSeq(InitText("main"), LAMBDA line : line.k = "lda #")) = 1
    /\ Len(SelectSeq(InitText("main"), LAMBDA line : line.k = "ldx #")) = 2
    /\ StoresTo("main", "sta", "WORD") = << Sta("d", 0), Sta("c", 0) >>

(***************************************************************************)
(* Executing the straight-line part of an initializer on registers A and X *)
(* and the memory cells it stores to.                                      *)
(***************************************************************************)
Store(mem, loc, v) == [c \in DOMAIN mem \cup {loc} |-> IF c = loc THEN v ELSE mem[c]]

Step(st, line) ==
    IF line.k = "lda #" THEN [st EXCEPT !.A = HexValue(line.a)]
    ELSE IF line.k = "ldx #" THEN [st EXCEPT !.X = HexValue(line.a)]
    ELSE IF line.k = "sta" THEN [st EXCEPT !.mem = Store(st.mem, <<line.s, line.n>>, st.A)]
    ELSE IF line.k = "stx" THEN [st EXCEPT !.mem = Store(st.mem, <<line.s, line.n>>, st.X)]
    ELSE st

RECURSIVE Execute(_, _, _)
Execute(text, i, st) ==
    IF i > Len(text) THEN st ELSE Execute(text, i + 1, Step(st, text[i]))

AfterPasses(name) ==
    Execute(PassText(name), 1, [A |-> NoValue, X |-> NoValue, mem |-> << >>])

(***************************************************************************)
(* C7: executing the initializer of a Block leaves every general word      *)
(* variable in little-endian order: the low byte (value mod 256) at the    *)
(* variable's address, the high byte (value div 256) at address + 1.       *)
(***************************************************************************)
C7_WordsLittleEndian ==
    \A p \in Indices(".proc") :
        LET name == output[p].s
            block == SourceBlock(name)
            mem == AfterPasses(name).mem
        IN \A i \in GeneralVars(block, "WORD") :
               /\ mem[<<block.nodes[i].name, 0>>] = block.nodes[i].value % 256
               /\ mem[<<block.nodes[i].name, 1>>] = block.nodes[i].value \div 256

(***************************************************************************)
(* C8: under the save-and-restore policy the call of the save routine is   *)
(* the first instruction of the startup sequence, main.start is called     *)
(* with jsr and the call is followed by the cleanup and a jump to the      *)
(* restore routine; otherwise there is no save call and no restore jump    *)
(* and main.start is reached by a direct jmp.                              *)
(***************************************************************************)
InstructionIndices == {i \in 1..Len(output) : output[i].k \in Instructions}

C8_ZeroPagePolicy ==
    StartupEmitted =>
        /\ Cardinality(EntryIndices) = 1
        /\ \A e \in EntryIndices :
              IF module.zp_options = "CLOBBER_RESTORE"
              THEN /\ output[Min(InstructionIndices)] = Jsr("", "_il65_save_zeropage")
                   /\ \A i \in 1..Len(output) :
                          (output[i].k = "jsr" /\ output[i].t = "_il65_init_block")
                              => Min(InstructionIndices) < i
                   /\ output[e] = Jsr("main", "start")
                   /\ output[e + 1] = Op("cld")
                   /\ output[e + 2] = Jmp("", "_il65_restore_zeropage")
              ELSE /\ output[e] = Jmp("main", "start")
                   /\ \A i \in 1..Len(output) :
                          output[i].t \notin {"_il65_save_zeropage", "_il65_restore_zeropage"}

C8_Witness ==
    /\ Finished
    /\ module.zp_options = "CLOBBER_RESTORE"
    /\ zeropage(module) # {}
    /\ module.format = "BASIC"

(***************************************************************************)
(* C9: for every Program that passes the sanity check the text of the main *)
(* Block holds the start Label, directly followed by the flag-clearing     *)
(* instructions cld, clc, clv; no other Label of any Block is followed by  *)
(* inserted flag-clearing instructions.                                    *)
(***************************************************************************)
FlagsFollow(i) ==
    /\ i + 3 <= Len(output)
    /\ output[i + 1] = Op("cld")
    /\ output[i + 2] = Op("clc")
    /\ output[i + 3] = Op("clv")

\* line i is a top-level statement line of the Block called name
TopLevelOf(i, name) ==
    /\ \E h \in Indices("; block") : h < i
    /\ LET h == Max({j \in Indices("; block") : j < i}) IN
       /\ output[h].s = name
       /\ ~\E j \in Indices(";") : h < j /\ j < i /\ output[j].t = "-- block subroutines"

C9_FlagsAfterMainStart ==
    /\ \A i \in Indices("label") :
           FlagsFollow(i) <=> (output[i].s = "start" /\ TopLevelOf(i, "main"))
    /\ Succeeded =>
           \E i \in Indices("label") :
               output[i].s = "start" /\ TopLevelOf(i, "main") /\ FlagsFollow(i)

C9_Witness ==
    /\ Finished
    /\ Len(module.blocks) = 2
    /\ module.blocks[1].name = "lib"
    /\ \E i \in 1..Len(module.blocks[1].nodes) : module.blocks[1].nodes[i] = Label("start")
    /\ \E i \in Indices("label") : output[i].s = "start" /\ ~FlagsFollow(i)
    /\ \E i \in Indices("label") : output[i].s = "start" /\ FlagsFollow(i)

(***************************************************************************)
(* The text of the zero-page Block: from the opening of its scope to the   *)
(* closing (or to the end of the text when an error cut it short).         *)
(***************************************************************************)
ZpText ==
    LET p == ProcIndex("ZP")
        ends == {i \in Indices(".pend") : i > p}
    IN SubSeq(output, p, IF ends = {} THEN Len(output) ELSE Min(ends))

ZpEmitted == \E p \in Indices(".proc") : output[p].s = "ZP"

MaxLines == 3

BREAKPOINT_COMMENT_SIGNATURE ==
    << "~", "~", "~", "B", "R", "E", "A", "K", "P", "O", "I", "N", "T", "~", "~", "~" >>

\* the character classes \w and \s of the pattern
WordChars ==
    {"0", "1", "2", "3", "4", "5", "6", "7", "8", "9", "_"}
    \cup {"a", "b", "c", "d", "e", "f", "g", "h", "i", "j", "k", "l", "m",
          "n", "o", "p", "q", "r", "s", "t", "u", "v", "w", "x", "y", "z"}
    \cup {"A", "B", "C", "D", "E", "F", "G", "H", "I", "J", "K", "L", "M",
          "N", "O", "P", "Q", "R", "S", "T", "U", "V", "W", "X", "Y", "Z"}

SpaceChars == {" ", "\t", "\n", "\r", "\f"}

\* the items of a pattern: one character, a literal character, a run of one or
\* more characters of a class (group: the run is the address), and .* at the end
AnyChar == [op |-> "any", c |-> "", class |-> {}, group |-> FALSE]

Lit(c) == [op |-> "lit", c |-> c, class |-> {}, group |-> FALSE]

Plus(class, group) == [op |-> "plus", c |-> "", class |-> class, group |-> group]

AnyRest == [op |-> "rest", c |-> "", class |-> {}, group |-> FALSE]

Lits(chars) == [i \in 1..Len(chars) |-> Lit(chars[i])]

\* .(?P<address>\w+)\s+ea\s+nop\s+;\s+~~~BREAKPOINT~~~.*
BREAKPOINT_COMMENT_DETECTOR ==
    << AnyChar, Plus(WordChars, TRUE), Plus(SpaceChars, FALSE) >>
    \o Lits(<< "e", "a" >>) \o << Plus(SpaceChars, FALSE) >>
    \o Lits(<< "n", "o", "p" >>) \o << Plus(SpaceChars, FALSE) >>
    \o Lits(<< ";" >>) \o << Plus(SpaceChars, FALSE) >>
    \o Lits(BREAKPOINT_COMMENT_SIGNATURE) \o << AnyRest >>

\* the length of the run of characters of class that starts at line[j]
RECURSIVE RunLength(_, _, _)
RunLength(line, j, class) ==
    IF j <= Len(line) /\ line[j] \in class THEN 1 + RunLength(line, j + 1, class) ELSE 0

\* re.fullmatch with re.DOTALL: << >> when the line does not match, else the
\* one-element sequence of the address group.  A run is greedy: the longest
\* length is tried first, then the shorter ones.
RECURSIVE fullmatch_from(_, _, _, _, _)
RECURSIVE fullmatch_run(_, _, _, _, _, _)
fullmatch_from(pattern, p, line, j, address) ==
    IF p > Len(pattern) THEN (IF j > Len(line) THEN << address >> ELSE << >>)
    ELSE IF pattern[p].op = "rest" THEN fullmatch_from(pattern, p + 1, line, Len(line) + 1, address)
    ELSE IF pattern[p].op = "plus"
    THEN fullmatch_run(pattern, p, line, j, RunLength(line, j, pattern[p].class), address)
    ELSE IF j > Len(line) THEN << >>
    ELSE IF pattern[p].op = "lit" /\ line[j] # pattern[p].c THEN << >>
    ELSE fullmatch_from(pattern, p + 1, line, j + 1, address)

fullmatch_run(pattern, p, line, j, n, address) ==
    IF n < 1 THEN << >>
    ELSE LET m == fullmatch_from(pattern, p + 1, line, j + n,
                                 IF pattern[p].group THEN SubSeq(line, j, j + n - 1) ELSE address)
         IN IF m # << >> THEN m ELSE fullmatch_run(pattern, p, line, j, n - 1, address)

fullmatch(pattern, line) == fullmatch_from(pattern, 1, line, 1, << >>)

\* the characters of a sequence as one string
RECURSIVE Join(_)
Join(chars) == IF chars = << >> THEN "" ELSE Head(chars) \o Join(Tail(chars))

\* assemble: the flag appended for the output format
format_args_always_prg(fmt) == << "--cbm-prg" >>

format_args(fmt) ==
    IF fmt \in {"PRG", "BASIC"} THEN << "--cbm-prg" >>
    ELSE IF fmt = "RAW" THEN << "--nostart" >>
    ELSE << >>

\* assemble: the command line, or the error for a format it does not know
assemble_args(fmt, inputfilename, outputfilename) ==
    [args |-> << "64tass", "--ascii", "--case-sensitive", "-Wall", "-Wno-strict-bool",
                 "--dump-labels", "--vice-labels", "-l", outputfilename \o ".vice-mon-list",
                 "-L", outputfilename \o ".final-asm", "--no-monitor", "--output",
                 outputfilename, inputfilename >> \o format_args(fmt),
     exc |-> IF fmt \in {"PRG", "BASIC", "RAW"} THEN NoExc
             ELSE CodeError("don't know how to create format", << fmt >>)]

\* the lines a listing can hold: breakpoint markers as 64tass lists them
\* (a dot, the address, the opcode byte ea, the mnemonic, the comment) and
\* lines that are no markers
MarkerLine(address, gap, rest) ==
    << "." >> \o address \o gap \o << "e", "a" >> \o gap \o << "n", "o", "p" >> \o gap
    \o << ";", " " >> \o BREAKPOINT_COMMENT_SIGNATURE \o rest

ListingLines ==
    { MarkerLine(<< "1", "0", "0", "0" >>, << "\t" >>, << "\n" >>),
      MarkerLine(<< "2", "0", "0", "0" >>, << " ", " " >>, << " ", "h", "e", "r", "e", "\n" >>),
      MarkerLine(<< "3", "0", "0", "0" >>, << "\t", "\t" >>, << >>),
      \* a nop that carries no signature
      << ".", "1", "0", "0", "0", "\t", "e", "a", "\t", "n", "o", "p", "\n" >>,
      \* the signature on a line that is no instruction
      << ";", " " >> \o BREAKPOINT_COMMENT_SIGNATURE \o << "\n" >>,
      \* the signature behind another instruction
      << ".", "2", "0", "0", "0", "\t", "6", "0", "\t", "r", "t", "s", "\t", ";", " " >>
          \o BREAKPOINT_COMMENT_SIGNATURE \o << "\n" >> }

Listings == SeqsUpTo(ListingLines, 0, MaxLines)

\* the label dump 64tass leaves in the .vice-mon-list file
LabelLines == {"al 0801 .main", "al 080d .main.start"}

LabelDumps == { << >>, << "al 0801 .main" >>, << "al 0801 .main", "al 080d .main.start" >> }

Filenames == { [input |-> "prog.asm", output |-> "prog.prg"] }

\* subprocess.check_call(args) and the handlers around it: the assembler ran and
\* left its listing and label dump, or it could not be started, or it failed
check_call(command) ==
    IF command.exc # NoExc
    THEN { [args |-> command.args, exc |-> command.exc, listing |-> << >>, labels |-> << >>] }
    ELSE { [args |-> command.args, exc |-> NoExc, listing |-> l, labels |-> d] :
              l \in Listings, d \in LabelDumps }
         \cup { [args |-> command.args, exc |-> SystemExit("ERROR: cannot run assembler program"),
                 listing |-> << >>, labels |-> << >>] }
         \cup { [args |-> command.args,
                 exc |-> [class |-> "SystemExit", what |-> "assembler failed with returncode", args |-> << rc >>],
                 listing |-> << >>, labels |-> << >>] : rc \in {1, 2} }

\* generate_breakpoint_list: one line of the scanning loop
scan_line_prepend(bps, line) ==
    LET match == fullmatch(BREAKPOINT_COMMENT_DETECTOR, line) IN
    IF match # << >> THEN << "$" \o Join(match[1]) >> \o bps ELSE bps

scan_line(bps, line) ==
    LET match == fullmatch(BREAKPOINT_COMMENT_DETECTOR, line) IN
    IF match # << >> THEN Append(bps, "$" \o Join(match[1])) ELSE bps

\* generate_breakpoint_list: what is appended to the label dump
breakpoint_script(bps) ==
    << "; vice monitor breakpoint list now follows",
       "; " \o ToString(Len(bps)) \o " breakpoints have been defined here",
       "del" >>
    \o [i \in 1..Len(bps) |-> "break " \o bps[i]]

generator == <<module, output, sink, exc, cur_block>>

Assemble ==
    /\ pc = "assemble"
    /\ \E run \in check_call(assemble_args(asm_format, filenames.input, filenames.output)) :
          /\ asm_args' = run.args
          /\ listing' = run.listing
          /\ cmdfile' = run.labels
          /\ raised' = run.exc
          /\ pc' = IF run.exc = NoExc THEN "scan" ELSE "done"
    /\ UNCHANGED <<generator, asm_format, filenames, breakpoints, scanned>>

ScanListing ==
    /\ pc = "scan"
    /\ scanned < Len(listing)
    /\ breakpoints' = scan_line(breakpoints, listing[scanned + 1])
    /\ scanned' = scanned + 1
    /\ UNCHANGED <<generator, pc, raised, asm_format, filenames, asm_args, listing, cmdfile>>

AppendBreakpointList ==
    /\ pc = "scan"
    /\ scanned = Len(listing)
    /\ cmdfile' = cmdfile \o breakpoint_script(breakpoints)
    /\ pc' = "done"
    /\ UNCHANGED <<generator, raised, asm_format, filenames, asm_args, listing,
                   breakpoints, scanned>>

ToolchainNext ==
    \/ Assemble
    \/ ScanListing
    \/ AppendBreakpointList

\* the toolchain is invoked on the file a finished generation left
ToolchainInit ==
    /\ module \in {Program(f, 49152, "NONE", << Block("main", 0, MainBody) >>) : f \in Formats}
    /\ output = <<>>
    /\ sink = "closed"
    /\ pc = "assemble"
    /\ exc = NoExc
    /\ raised = NoExc
    /\ cur_block = ""
    /\ asm_format = module.format
    /\ filenames \in Filenames
    /\ asm_args = <<>>
    /\ listing = <<>>
    /\ breakpoints = <<>>
    /\ scanned = 0
    /\ cmdfile = <<>>

ToolchainSpec == ToolchainInit /\ [][ToolchainNext]_vars

(***************************************************************************)
(* Reading the listing and the script.                                     *)
(***************************************************************************)
IsMarker(line) == fullmatch(BREAKPOINT_COMMENT_DETECTOR, line) # << >>

\* the lines of the listing that match the marker pattern, in listing order
Markers == SelectSeq(listing, IsMarker)

\* the address of a listing line: what stands between its first character
\* and its first white space
AddressOf(line) ==
    SubSeq(line, 2, Min({i \in 1..Len(line) : line[i] \in SpaceChars}) - 1)

ToolchainSucceeded == pc = "done" /\ raised = NoExc

(***************************************************************************)
(* C11: when generate_breakpoint_list has run, the label-dump file holds   *)
(* the label dump it held before, followed by the header comment, one      *)
(* clear command (del), and then exactly one set-breakpoint command per    *)
(* listing line that matches the marker pattern, each "break $<address>"   *)
(* with that line's address, in listing order; other lines add nothing.    *)
(***************************************************************************)
C11_BreakpointScript ==
    ToolchainSucceeded =>
        \E k \in 0..Len(cmdfile) :
            /\ \A i \in 1..k : cmdfile[i] \in LabelLines
            /\ Len(cmdfile) = k + 3 + Len(Markers)
            /\ cmdfile[k + 1] = "; vice monitor breakpoint list now follows"
            /\ cmdfile[k + 2] = "; " \o ToString(Len(Markers))
                                     \o " breakpoints have been defined here"
            /\ cmdfile[k + 3] = "del"
            /\ \A j \in 1..Len(Markers) :
                   cmdfile[k + 3 + j] = "break $" \o Join(AddressOf(Markers[j]))

C11_Witness ==
    /\ ToolchainSucceeded
    /\ Len(listing) = 3
    /\ Len(Markers) = 3
    /\ Len(cmdfile) = 8
    /\ SubSeq(cmdfile, 5, 8) = << "del", "break $1000", "break $2000", "break $3000" >>

\* the command line assemble() builds for another format and the same file names
ArgsFor(fmt) == assemble_args(fmt, filenames.input, filenames.output).args

Assembled == pc \in {"scan", "done"}

(***************************************************************************)
(* C12 as claimed: the command line assemble() built differs from the one  *)
(* it builds, for the same file names, for each of the two other formats.  *)
(***************************************************************************)
C12_DistinctArgsPerFormat ==
    Assembled => \A other \in Formats \ {asm_format} : asm_args # ArgsFor(other)

(***************************************************************************)
(* C12 amended: the command line for the raw binary format ends in         *)
(* --nostart and differs from the command line of either loadable format;  *)
(* the command lines of the two loadable formats (PRG and BASIC) end in    *)
(* --cbm-prg and are the same for the same file names.                     *)
(***************************************************************************)
C12_RawDistinctLoadableShared ==
    Assembled =>
        /\ asm_format = "RAW" =>
              /\ asm_args[Len(asm_args)] = "--nostart"
              /\ "--cbm-prg" \notin Range(asm_args)
              /\ asm_args # ArgsFor("PRG")
              /\ asm_args # ArgsFor("BASIC")
        /\ asm_format \in {"PRG", "BASIC"} =>
              /\ asm_args[Len(asm_args)] = "--cbm-prg"
              /\ "--nostart" \notin Range(asm_args)
              /\ asm_args # ArgsFor("RAW")
              /\ asm_args = ArgsFor("PRG")
              /\ asm_args = ArgsFor("BASIC")

C12_Witness ==
    /\ Assembled
    /\ asm_format = "BASIC"
    /\ Len(asm_args) = 16
    /\ asm_args[14] = "prog.prg"
    /\ asm_args[15] = "prog.asm"
    /\ asm_args[16] = "--cbm-prg"

(***************************************************************************)
(* The registers at a store of the byte and word passes.                   *)
(***************************************************************************)
\* the state in which line i of text executes; nothing is known of A and X
\* when the initializer is entered
Before(text, i) ==
    Execute(SubSeq(text, 1, i - 1), 1, [A |-> NoValue, X |-> NoValue, mem |-> << >>])

StoredRegister(text, i) == IF text[i].k = "sta" THEN Before(text, i).A ELSE Before(text, i).X

\* the byte the generator means a store to put there: the value of a byte
\* variable, v_hi for the sta and v_lo for the stx of a word variable
IntendedByte(block, line) ==
    IF IsGeneralVar(block, line.s, {"BYTE"}) THEN VarValue(block, line.s)
    ELSE IF line.k = "sta" THEN VarValue(block, line.s) \div 256
    ELSE VarValue(block, line.s) % 256

(***************************************************************************)
(* C13: executing the byte and word passes of any Block's initializer in   *)
(* order, at every sta and stx the stored register holds the byte meant    *)
(* for that store: the value of the byte variable, the high byte at the    *)
(* sta and the low byte at the stx of a word variable.                     *)
(***************************************************************************)
C13_StoredRegisterHoldsIntended ==
    \A p \in Indices(".proc") :
        LET name == output[p].s
            text == PassText(name)
        IN \A i \in 1..Len(text) :
               text[i].k \in {"sta", "stx"} =>
                   StoredRegister(text, i) = IntendedByte(SourceBlock(name), text[i])

\* a byte variable and a word variable whose high byte is the byte variable's
\* value: the word pass loads A for no word variable
C13_Witness ==
    /\ Finished
    /\ LET block == SourceBlock("main")
           text == PassText("main")
       IN /\ \E b \in GeneralVars(block, "BYTE") :
                 \A w \in GeneralVars(block, "WORD") :
                     block.nodes[w].value \div 256 = block.nodes[b].value
          /\ Cardinality(GeneralVars(block, "WORD")) = 2
          /\ Len(SelectSeq(text, LAMBDA line : line.k = "lda #")) = 1
          /\ text[2].k = "lda #" /\ text[3].k = "sta"
          /\ Len(SelectSeq(text, LAMBDA line : line.k = "sta")) = 3

(***************************************************************************)
(* Executing a whole initializer: the 6502 on the lines from the           *)
(* _il65_init_block label to the rts, with the branch of the float loop.   *)
(* N is the negative flag; xs lists the value of X at every pass of the    *)
(* loop label, copies the bytes the loop stored.                           *)
(***************************************************************************)
\* the bytes of the constant table _init_float_<var> in the text of a Block
FloatTable(name, var) ==
    LET p == ProcIndex(name)
        tables == {i \in Indices(".byte") :
                      /\ i > p
                      /\ \A e \in Indices(".pend") : e > p => i < e
                      /\ output[i].s = "_init_float_"
                      /\ output[i].t = var}
    IN [j \in 0..4 |->
           IF Cardinality(tables) # 1 THEN NoValue
           ELSE LET digits == output[CHOOSE i \in tables : TRUE].a
                IN 16 * digits[2 * j + 1] + digits[2 * j + 2]]

Load(st, reg, v) ==
    IF reg = "A" THEN [st EXCEPT !.A = v, !.N = (v >= 128), !.ip = @ + 1]
    ELSE [st EXCEPT !.X = v, !.N = (v >= 128), !.ip = @ + 1]

CpuStep(name, text, st) ==
    LET line == text[st.ip] IN
    IF line.k = "label"
    THEN [st EXCEPT !.ip = @ + 1,
                    !.xs = IF line.s = "-" THEN Append(@, st.X) ELSE @]
    ELSE IF line.k \in {"lda #", "ldx #"}
    THEN Load(st, IF line.k = "lda #" THEN "A" ELSE "X", HexValue(line.a))
    ELSE IF line.k \in {"sta", "stx"}
    THEN [Step(st, line) EXCEPT !.ip = @ + 1]
    ELSE IF line.k \in {"lda #<", "lda #>"}
    \* a byte of an address or of a fill value: not followed here
    THEN [st EXCEPT !.A = NoValue, !.ip = @ + 1]
    ELSE IF line.k = "ldy #>"
    THEN [st EXCEPT !.ip = @ + 1]
    ELSE IF line.k = "jsr"
    \* a library routine: it returns, with A and X as it leaves them
    THEN [st EXCEPT !.A = NoValue, !.X = NoValue, !.ip = @ + 1]
    ELSE IF line.k = "lda ,x"
    THEN [Load(st, "A", IF st.X \in 0..4 THEN FloatTable(name, line.t)[st.X] ELSE NoValue)
              EXCEPT !.from = << line.t, st.X >>]
    ELSE IF line.k = "sta ,x"
    THEN [st EXCEPT !.mem = Store(st.mem, << line.s, st.X >>, st.A),
                    !.copies = Append(@, [to |-> line.s, index |-> st.X,
                                          from |-> st.from, value |-> st.A]),
                    !.ip = @ + 1]
    ELSE IF line.k = "dex"
    THEN Load(st, "X", (st.X + 255) % 256)
    ELSE IF line.k = "bpl"
    THEN [st EXCEPT !.ip = IF st.N THEN @ + 1
                           ELSE Max({i \in 1..(st.ip - 1) :
                                        text[i].k = "label" /\ text[i].s = line.s})]
    ELSE IF line.k = "rts"
    THEN [st EXCEPT !.halt = "rts"]
    ELSE [st EXCEPT !.halt = "unknown instruction"]

RECURSIVE Run(_, _, _, _)
Run(name, text, st, fuel) ==
    IF st.halt # "" \/ fuel = 0 THEN st
    ELSE IF st.ip > Len(text) THEN [st EXCEPT !.halt = "left the routine"]
    ELSE Run(name, text, CpuStep(name, text, st), fuel - 1)

\* every line of the loop runs five times at most, the others once
RunInit(name) ==
    Run(name, InitText(name),
        [ip |-> 1, A |-> NoValue, X |-> NoValue, N |-> FALSE, mem |-> << >>,
         xs |-> << >>, copies |-> << >>, from |-> << >>, halt |-> ""],
        6 * Len(InitText(name)))

FloatNames(block) == {block.nodes[i].name : i \in GeneralVars(block, "FLOAT")}

(***************************************************************************)
(* C14: executing the initializer of a Block that has general float        *)
(* variables reaches the rts; X is 4, 3, 2, 1, 0 at the five passes of the *)
(* loop; each pass stores, for every float variable, the byte at index X   *)
(* of that variable's own table to the variable at index X; at the rts all *)
(* five bytes of every float variable equal its table.                     *)
(***************************************************************************)
C14_FloatLoopTerminates ==
    \A p \in Indices(".proc") :
        LET name == output[p].s
            floats == FloatNames(SourceBlock(name))
            n == Cardinality(floats)
            run == RunInit(name)
        IN floats # {} =>
               /\ run.halt = "rts"
               /\ run.xs = << 4, 3, 2, 1, 0 >>
               /\ Len(run.copies) = 5 * n
               /\ \A k \in 0..4 :
                      /\ {run.copies[k * n + j].to : j \in 1..n} = floats
                      /\ \A j \in 1..n :
                             LET copy == run.copies[k * n + j] IN
                             /\ copy.index = 4 - k
                             /\ copy.from = << copy.to, 4 - k >>
                             /\ copy.value = FloatTable(name, copy.to)[4 - k]
               /\ \A f \in floats : \A j \in 0..4 :
                      /\ << f, j >> \in DOMAIN run.mem
                      /\ run.mem[<< f, j >>] = FloatTable(name, f)[j]
                      /\ run.mem[<< f, j >>] \in 0..255

\* two float variables with different tables, emitted in another order than declared
C14_Witness ==
    /\ Finished
    /\ LET block == SourceBlock("main")
           run == RunInit("main")
       IN /\ Cardinality(FloatNames(block)) = 2
          /\ FloatTable("main", "a") # FloatTable("main", "c")
          /\ VarValue(block, "c") = 10
          /\ run.halt = "rts"
          /\ Len(run.copies) = 10
          /\ run.copies[1].to = "a"
          /\ run.mem[<< "c", 0 >>] = FloatTable("main", "c")[0]

====
